---- MODULE Spec2Model ----
(***************************************************************************)
(* Periodic-table browser (Advancetable.py): the level gate, the token     *)
(* normaliser, the combination resolver and the quiz gate.                 *)
(*                                                                         *)
(* Text is modelled as a sequence of characters (each a one-element        *)
(* string), so that strip(), lower(), str() and int(float()) are computed  *)
(* and not assumed.  Python's None is the empty tuple <<>> and a present   *)
(* value v is the one-element tuple <<v>>.                                 *)
(***************************************************************************)
EXTENDS Integers, Sequences, FiniteSets, TLC

\* ------------------------------------------------------------------ bounds
\* Gate inputs range over -NegAtno .. MaxAtno.
MaxAtno == 120
NegAtno == 3

\* ------------------------------------------------------------- characters
UpperChars == <<"A","B","C","D","E","F","G","H","I","J","K","L","M",
                "N","O","P","Q","R","S","T","U","V","W","X","Y","Z">>
LowerChars == <<"a","b","c","d","e","f","g","h","i","j","k","l","m",
                "n","o","p","q","r","s","t","u","v","w","x","y","z">>
DecimalChars == <<"0","1","2","3","4","5","6","7","8","9">>

\* U+FEFF, a superscript two (str.isdigit() is true, float() rejects it),
\* and the two whitespace characters of the model.
BOM == "BOM"
SUP2 == "SUP2"
Whitespace == {" ", "TAB"}

None == <<>>
Some(v) == <<v>>

IndexIn(c, chars) == CHOOSE i \in 1..Len(chars) : chars[i] = c
InSeq(c, chars) == \E i \in 1..Len(chars) : chars[i] = c

\* str.lower() / str.upper(), one character
LowerChar(c) == IF InSeq(c, UpperChars) THEN LowerChars[IndexIn(c, UpperChars)] ELSE c
UpperChar(c) == IF InSeq(c, LowerChars) THEN UpperChars[IndexIn(c, LowerChars)] ELSE c
Lower(s) == [i \in 1..Len(s) |-> LowerChar(s[i])]
Upper(s) == [i \in 1..Len(s) |-> UpperChar(s[i])]

\* str.strip(): drop leading and trailing whitespace
RECURSIVE LStrip(_)
LStrip(s) == IF s # <<>> /\ Head(s) \in Whitespace THEN LStrip(Tail(s)) ELSE s
RECURSIVE RStrip(_)
RStrip(s) == IF s # <<>> /\ s[Len(s)] \in Whitespace
             THEN RStrip(SubSeq(s, 1, Len(s) - 1)) ELSE s
Strip(s) == RStrip(LStrip(s))

\* s.replace(U+FEFF, "")
RemoveBOM(s) == SelectSeq(s, LAMBDA c : c # BOM)

\* (x or ""), x an optional text
OrEmpty(x) == IF x = None THEN <<>> ELSE x[1]

\* str(n) of an integer
RECURSIVE StrNat(_)
StrNat(n) == IF n < 10 THEN <<DecimalChars[n + 1]>>
             ELSE StrNat(n \div 10) \o <<DecimalChars[(n % 10) + 1]>>
Str(n) == IF n < 0 THEN <<"-">> \o StrNat(0 - n) ELSE StrNat(n)

\* str.isdigit(): non-empty and every character a digit (SUP2 counts)
IsDigitChar(c) == InSeq(c, DecimalChars) \/ c = SUP2
IsDigit(s) == s # <<>> /\ \A i \in 1..Len(s) : IsDigitChar(s[i])

\* s.replace(".", "", 1)
RECURSIVE ReplaceFirstDot(_)
ReplaceFirstDot(s) == IF s = <<>> THEN <<>>
                      ELSE IF Head(s) = "." THEN Tail(s)
                      ELSE <<Head(s)>> \o ReplaceFirstDot(Tail(s))

\* value of a run of decimal digits (the empty run is 0)
RECURSIVE DigitsValue(_)
DigitsValue(s) == IF s = <<>> THEN 0
                  ELSE 10 * DigitsValue(SubSeq(s, 1, Len(s) - 1))
                       + (IndexIn(s[Len(s)], DecimalChars) - 1)

AllDecimal(s) == \A i \in 1..Len(s) : InSeq(s[i], DecimalChars)
DotAt(s) == IF \E i \in 1..Len(s) : s[i] = "."
            THEN CHOOSE i \in 1..Len(s) : s[i] = "." /\ \A j \in 1..(i-1) : s[j] # "."
            ELSE Len(s) + 1

\* int(float(s)) for s already stripped: an optional sign, decimal digits with
\* at most one point and at least one digit; truncation toward zero.  None
\* stands for the ValueError float() raises on anything else.
IntFloat(s) ==
    LET neg  == s # <<>> /\ Head(s) = "-"
        body == IF s # <<>> /\ Head(s) \in {"-", "+"} THEN Tail(s) ELSE s
        d    == DotAt(body)
        ip   == SubSeq(body, 1, d - 1)
        fp   == SubSeq(body, d + 1, Len(body))
    IN  IF AllDecimal(ip) /\ AllDecimal(fp) /\ Len(ip) + Len(fp) > 0
        THEN Some(IF neg THEN 0 - DigitsValue(ip) ELSE DigitsValue(ip))
        ELSE None

\* ------------------------------------------------------------- text values
Txt_Lanthanide == <<"L","a","n","t","h","a","n","i","d","e">>
Txt_Actinide   == <<"A","c","t","i","n","i","d","e">>
Txt_Nonmetal   == <<"N","o","n","m","e","t","a","l">>
Txt_NobleGas   == <<"N","o","b","l","e"," ","g","a","s">>
Txt_Metal      == <<"T","r","a","n","s","i","t","i","o","n"," ","m","e","t","a","l">>

\* ------------------------------------------------------------- level rules
Levels == {"Basic", "Intermediate", "Advanced"}
NoLevel == "None"

\* Python truthiness of an optional integer
TruthyInt(a) == a # None /\ a[1] # 0

\* the gate with the Basic limit off by one
is_unlocked_for_level_lt20(level, atno, category) ==
    LET lvl == IF level = NoLevel THEN "Advanced" ELSE level
    IN  IF ~TruthyInt(atno) THEN FALSE
        ELSE IF lvl = "Basic" THEN atno[1] < 20
        ELSE IF lvl = "Intermediate"
             THEN IF Strip(OrEmpty(category)) \in {Txt_Lanthanide, Txt_Actinide}
                  THEN FALSE
                  ELSE atno[1] <= 54
        ELSE atno[1] <= 118

\* the gate with the Intermediate category test missing the actinides
is_unlocked_for_level_nocat(level, atno, category) ==
    LET lvl == IF level = NoLevel THEN "Advanced" ELSE level
    IN  IF ~TruthyInt(atno) THEN FALSE
        ELSE IF lvl = "Basic" THEN atno[1] <= 20
        ELSE IF lvl = "Intermediate"
             THEN IF Strip(OrEmpty(category)) \in {Txt_Lanthanide}
                  THEN FALSE
                  ELSE atno[1] <= 54
        ELSE atno[1] <= 118

\* is_unlocked_for_level(level, atno, category=None); atno an optional
\* integer, category an optional text
is_unlocked_for_level(level, atno, category) ==
    LET lvl == IF level = NoLevel THEN "Advanced" ELSE level
    IN  IF ~TruthyInt(atno) THEN FALSE
        ELSE IF lvl = "Basic" THEN atno[1] <= 20
        ELSE IF lvl = "Intermediate"
             THEN IF Strip(OrEmpty(category)) \in {Txt_Lanthanide, Txt_Actinide}
                  THEN FALSE
                  ELSE atno[1] <= 54
        ELSE atno[1] <= 118

\* ------------------------------------------------------------ the datasets
\* elements.csv and the combination file are data, not code: the model runs the
\* loaders on each of a few tables (DataSets, ComboSets).
Txt_Hydrogen  == <<"H","y","d","r","o","g","e","n">>
Txt_Oxygen    == <<"O","x","y","g","e","n">>
Txt_Calcium   == <<"C","a","l","c","i","u","m">>
Txt_Iron      == <<"I","r","o","n">>
Txt_Krypton   == <<"K","r","y","p","t","o","n">>
Txt_Xenon     == <<"X","e","n","o","n">>
Txt_Neodymium == <<"N","e","o","d","y","m","i","u","m">>
Txt_Mercury   == <<"M","e","r","c","u","r","y">>
Txt_Uranium   == <<"U","r","a","n","i","u","m">>
Txt_Plutonium == <<"P","l","u","t","o","n","i","u","m">>
Txt_Water     == <<"W","a","t","e","r">>
Txt_Rust      == <<"R","u","s","t">>
Txt_Lime      == <<"L","i","m","e">>

ElRow(at, sym, nm, cat) ==
    [atomic_number |-> at, symbol |-> sym, name |-> nm, category |-> cat]

\* a well-formed table: the nine quiz elements and one lanthanide
DataPlain == <<
    ElRow(<<"1">>,     <<"H">>,     Txt_Hydrogen,  Txt_Nonmetal),
    ElRow(<<"8">>,     <<"O">>,     Txt_Oxygen,    Txt_Nonmetal),
    ElRow(<<"2","0">>, <<"C","a">>, Txt_Calcium,   Txt_Metal),
    ElRow(<<"2","6">>, <<"F","e">>, Txt_Iron,      Txt_Metal),
    ElRow(<<"3","6">>, <<"K","r">>, Txt_Krypton,   Txt_NobleGas),
    ElRow(<<"5","4">>, <<"X","e">>, Txt_Xenon,     Txt_NobleGas),
    ElRow(<<"6","0">>, <<"N","d">>, Txt_Neodymium, Txt_Lanthanide),
    ElRow(<<"8","0">>, <<"H","g">>, Txt_Mercury,   Txt_Metal),
    ElRow(<<"9","2">>, <<"U">>,     Txt_Uranium,   Txt_Actinide),
    ElRow(<<"9","4">>, <<"P","u">>, Txt_Plutonium, Txt_Actinide) >>

\* the same elements as a spreadsheet export writes them: decimal-looking
\* numbers, padded cells, upper-case symbols
DataExport == <<
    ElRow(<<"1",".","0">>,     <<" ","H">>,     Txt_Hydrogen,  Txt_Nonmetal),
    ElRow(<<"8",".","0">>,     <<"O"," ">>,     Txt_Oxygen,    Txt_Nonmetal),
    ElRow(<<"2","0",".","0">>, <<"C","A">>,     Txt_Calcium,   Txt_Metal),
    ElRow(<<" ","2","6">>,     <<"F","E">>,     Upper(Txt_Iron), Txt_Metal),
    ElRow(<<"3","6">>,         <<"k","r">>,     Txt_Krypton,   Txt_NobleGas),
    ElRow(<<"5","4">>,         <<"X","e">>,     <<" ">> \o Txt_Xenon, Txt_NobleGas),
    ElRow(<<"6","0">>,         <<"N","D">>,     Txt_Neodymium, Txt_Lanthanide \o <<" ">>),
    ElRow(<<"8","0">>,         <<"H","g">>,     Txt_Mercury,   Txt_Metal),
    ElRow(<<"9","2">>,         <<"U">>,         Txt_Uranium,   Txt_Actinide),
    ElRow(<<"9","4">>,         <<"P","U">>,     Txt_Plutonium, Txt_Actinide) >>

\* a table with gaps: no row for 8 and 94, a blank atomic number, a blank
\* symbol for 1 and 80, a blank name for 54 and 26
DataGaps == <<
    ElRow(<<"1">>,     <<>>,        Txt_Hydrogen,  Txt_Nonmetal),
    ElRow(<<>>,        <<"O">>,     Txt_Oxygen,    Txt_Nonmetal),
    ElRow(<<"2","0">>, <<"C","a">>, Txt_Calcium,   Txt_Metal),
    ElRow(<<"2","6">>, <<"F","e">>, <<>>,          Txt_Metal),
    ElRow(<<"3","6">>, <<"K","r">>, Txt_Krypton,   Txt_NobleGas),
    ElRow(<<"5","4">>, <<"X","e">>, <<>>,          Txt_NobleGas),
    ElRow(<<"8","0">>, <<" ">>,     Txt_Mercury,   Txt_Metal),
    ElRow(<<"9","2">>, <<"U">>,     Txt_Uranium,   Txt_Actinide) >>

\* a table whose categories put quiz elements in the f-block, with a row that
\* repeats an atomic number
DataOdd == <<
    ElRow(<<"1">>,     <<"H">>,     Txt_Hydrogen,  Txt_Nonmetal),
    ElRow(<<"8">>,     <<"O">>,     Txt_Oxygen,    Txt_Nonmetal),
    ElRow(<<"2","0">>, <<"C","a">>, Txt_Calcium,   Txt_Metal),
    ElRow(<<"2","6">>, <<"F","e">>, Txt_Iron,      Txt_Metal),
    ElRow(<<"3","6">>, <<"K","r">>, Txt_Krypton,   Txt_Lanthanide),
    ElRow(<<"5","4">>, <<"X","e">>, Txt_Xenon,     Txt_Actinide),
    ElRow(<<"5","4">>, <<"X","e">>, Txt_Xenon,     <<" ">> \o Txt_Actinide),
    ElRow(<<"6","0">>, <<"N","d">>, Txt_Neodymium, Txt_Lanthanide),
    ElRow(<<"8","0">>, <<"H","g">>, Txt_Mercury,   Txt_Metal),
    ElRow(<<"9","2">>, <<"U">>,     Txt_Uranium,   Txt_Actinide),
    ElRow(<<"9","4">>, <<"P","u">>, Txt_Plutonium, Txt_Actinide) >>

DataSets == {DataPlain, DataExport, DataGaps, DataOdd}

\* a row with the placement columns x, y, period, group
Placed(row, xy, pg) ==
    [atomic_number |-> row.atomic_number, symbol |-> row.symbol, name |-> row.name,
     category |-> row.category, x |-> xy[1], y |-> xy[2], period |-> pg[1], group |-> pg[2]]
NoCells == << <<>>, <<>> >>

\* a table with placement: rows placed by period and group, a row placed by
\* x and y, a lanthanide with x and y, f-block rows without placement, and a
\* placed row without an atomic number
DataGrid == <<
    Placed(ElRow(<<"1">>,     <<"H">>,     Txt_Hydrogen,  Txt_Nonmetal), NoCells,
           <<(<<"1">>), (<<"1">>)>>),
    Placed(ElRow(<<"8">>,     <<"O">>,     Txt_Oxygen,    Txt_Nonmetal), NoCells,
           <<(<<"2">>), (<<"1","6">>)>>),
    Placed(ElRow(<<"2","0">>, <<"C","a">>, Txt_Calcium,   Txt_Metal),
           <<(<<"2">>), (<<"4">>)>>, <<(<<"9">>), (<<"9">>)>>),
    Placed(ElRow(<<"2","6">>, <<"F","e">>, Txt_Iron,      Txt_Metal), NoCells,
           <<(<<"4">>), (<<"8">>)>>),
    Placed(ElRow(<<"5","4">>, <<"X","e">>, Txt_Xenon,     Txt_NobleGas), NoCells,
           <<(<<"5">>), (<<"1","8">>)>>),
    Placed(ElRow(<<"3","6">>, <<"K","r">>, Txt_Krypton,   Txt_Lanthanide),
           <<(<<"1","8">>), (<<"4">>)>>, NoCells),
    Placed(ElRow(<<"6","0">>, <<"N","d">>, Txt_Neodymium, Txt_Lanthanide), NoCells, NoCells),
    Placed(ElRow(<<"9","2">>, <<"U">>,     Txt_Uranium,   Txt_Actinide), NoCells, NoCells),
    Placed(ElRow(<<>>,        <<"H","g">>, Txt_Mercury,   Txt_Metal), NoCells,
           <<(<<"6">>), (<<"1","2">>)>>) >>

\* ----------------------------------------------------------------- helpers
to_int_or_none(val) ==
    IF val = None THEN None
    ELSE LET s == Strip(val[1])
         IN  IF s = <<>> THEN None ELSE IntFloat(s)

_norm_symbol(s) ==
    LET t == Strip(RemoveBOM(OrEmpty(s)))
        l == Lower(t)
    IN  IF t = <<>> THEN <<>>
        ELSE IF Len(l) > 1 THEN <<UpperChar(l[1])>> \o Tail(l)
        ELSE Upper(l)

norm(s) == Lower(Strip(OrEmpty(s)))

\* ------------------------------------------------- lookup + symbol mappings
EmptyMap == [k \in {} |-> k]
Put(m, k, v) == [x \in (DOMAIN m) \cup {k} |-> IF x = k THEN v ELSE m[x]]
\* dict.get(k): an optional value
Get(m, k) == IF k \in DOMAIN m THEN Some(m[k]) ELSE None

RECURSIVE BuildElementsByAtno(_)
BuildElementsByAtno(rows) ==
    IF rows = <<>> THEN EmptyMap
    ELSE LET r    == rows[Len(rows)]
             prev == BuildElementsByAtno(SubSeq(rows, 1, Len(rows) - 1))
             at   == to_int_or_none(Some(r.atomic_number))
         IN  IF TruthyInt(at)
             THEN Put(prev, at[1], [name     |-> Strip(r.name),
                                    symbol   |-> Strip(r.symbol),
                                    category |-> Strip(r.category)])
             ELSE prev

RECURSIVE BuildSymbolToAtno(_)
BuildSymbolToAtno(rows) ==
    IF rows = <<>> THEN EmptyMap
    ELSE LET r    == rows[Len(rows)]
             prev == BuildSymbolToAtno(SubSeq(rows, 1, Len(rows) - 1))
             at   == to_int_or_none(Some(r.atomic_number))
             sym  == Strip(r.symbol)
         IN  IF TruthyInt(at) /\ sym # <<>> THEN Put(prev, Lower(sym), at[1]) ELSE prev

RECURSIVE BuildAtnoToSymbol(_)
BuildAtnoToSymbol(rows) ==
    IF rows = <<>> THEN EmptyMap
    ELSE LET r    == rows[Len(rows)]
             prev == BuildAtnoToSymbol(SubSeq(rows, 1, Len(rows) - 1))
             at   == to_int_or_none(Some(r.atomic_number))
             sym  == Strip(r.symbol)
         IN  IF TruthyInt(at) /\ sym # <<>> THEN Put(prev, at[1], sym) ELSE prev

\* ------------------------------------------------------- combination rows
CbRow(a, b, nm, f) ==
    [reactant_a |-> a, reactant_b |-> b,
     primary_product_name |-> nm, primary_product_formula |-> f]

ComboPlain == <<
    CbRow(<<"H">>,     <<"O">>, Txt_Water, <<"H","2","O">>),
    CbRow(<<"F","e">>, <<"O">>, Txt_Rust,  <<>>),
    CbRow(<<"N","d">>, <<"O">>, <<>>,      <<"N","d","2","O","3">>),
    CbRow(<<"U">>,     <<"O">>, <<>>,      <<"U","O","2">>) >>

\* un-normalised reactants, a blank reactant, a pair repeated in the other
\* order with another product, and a == b
ComboMessy == <<
    CbRow(<<" ","h">>,     <<BOM,"O">>, Txt_Water, <<>>),
    CbRow(<<"C","A">>,     <<>>,        Txt_Lime,  <<>>),
    CbRow(<<"o">>,         <<"H">>,     <<>>,      <<"H","2","O","2">>),
    CbRow(<<"O">>,         <<"O">>,     <<>>,      <<"O","2">>),
    CbRow(<<"n","d">>,     <<"H">>,     <<>>,      <<"N","d","H","2">>),
    CbRow(<<"O">>,         <<"C","a">>, Txt_Lime,  <<"C","a","O">>) >>


\* the load loop storing a pair in the order the row writes it only
ComboLoadRow_oneway(lookup, row) ==
    LET a == _norm_symbol(Some(row.reactant_a))
        b == _norm_symbol(Some(row.reactant_b))
    IN  IF a = <<>> \/ b = <<>> THEN lookup
        ELSE Put(lookup, <<a, b>>, row)

\* the load loop keeping an earlier record of the reversed pair
ComboLoadRow_keepfirst(lookup, row) ==
    LET a == _norm_symbol(Some(row.reactant_a))
        b == _norm_symbol(Some(row.reactant_b))
    IN  IF a = <<>> \/ b = <<>> THEN lookup
        ELSE LET one == Put(lookup, <<a, b>>, row)
             IN  IF <<b, a>> \in DOMAIN one THEN one ELSE Put(one, <<b, a>>, row)

\* one pass of the COMBO_LOOKUP load loop: both orders of the pair map to the
\* row's record; a row with a blank reactant is skipped
ComboLoadRow(lookup, row) ==
    LET a == _norm_symbol(Some(row.reactant_a))
        b == _norm_symbol(Some(row.reactant_b))
    IN  IF a = <<>> \/ b = <<>> THEN lookup
        ELSE Put(Put(lookup, <<a, b>>, row), <<b, a>>, row)

\* COMBO_LOOKUP after the loop has read rows
RECURSIVE BuildComboLookup(_)
BuildComboLookup(rows) ==
    IF rows = <<>> THEN EmptyMap
    ELSE ComboLoadRow(BuildComboLookup(SubSeq(rows, 1, Len(rows) - 1)), rows[Len(rows)])

\* --------------------------------------------------------- category colors
Txt_AlkaliMetal == <<"A","l","k","a","l","i"," ","m","e","t","a","l">>
Txt_AlkalineEarthMetal == <<"A","l","k","a","l","i","n","e"," ","e","a","r","t","h"," ","m","e","t","a","l">>
Txt_PostTransitionMetal == <<"P","o","s","t","-","t","r","a","n","s","i","t","i","o","n"," ","m","e","t","a","l">>
Txt_Metalloid == <<"M","e","t","a","l","l","o","i","d">>
Txt_Halogen == <<"H","a","l","o","g","e","n">>
Txt_Unknown == <<"U","n","k","n","o","w","n">>

CategoryNames == {Txt_AlkaliMetal,
                  Txt_AlkalineEarthMetal,
                  Txt_Lanthanide,
                  Txt_Actinide,
                  Txt_Metal,
                  Txt_PostTransitionMetal,
                  Txt_Metalloid,
                  Txt_Nonmetal,
                  Txt_Halogen,
                  Txt_NobleGas}
CATEGORY_COLORS == [c \in CategoryNames |->
    IF c = Txt_AlkaliMetal THEN "#FFB3BA"
    ELSE IF c = Txt_AlkalineEarthMetal THEN "#FFDFBA"
    ELSE IF c = Txt_Lanthanide THEN "#FFFFBA"
    ELSE IF c = Txt_Actinide THEN "#BAFFC9"
    ELSE IF c = Txt_Metal THEN "#BAE1FF"
    ELSE IF c = Txt_PostTransitionMetal THEN "#E2BAFF"
    ELSE IF c = Txt_Metalloid THEN "#D3D3D3"
    ELSE IF c = Txt_Nonmetal THEN "#BFFCC6"
    ELSE IF c = Txt_Halogen THEN "#FFD1DC"
    ELSE "#CBE7FF"]

\* category_color(cat), cat an optional text: the trimmed text is compared
\* with "Unknown", the palette is asked with the text as given
category_color(cat) ==
    IF Strip(OrEmpty(cat)) = Txt_Unknown THEN "#E0E0E0"
    ELSE IF cat # None /\ cat[1] \in CategoryNames THEN CATEGORY_COLORS[cat[1]]
    ELSE "#F0F0F0"

\* ------------------------------------------- positions and the f-block
MAX_PERIOD == 7
MAX_GROUP == 18

\* a row of elements.csv with the placement columns
GridRow(at, sym, cat, xy, pg) ==
    [atomic_number |-> at, symbol |-> sym, name |-> <<>>, category |-> cat,
     x |-> xy[1], y |-> xy[2], period |-> pg[1], group |-> pg[2]]

\* row.get(col, ""): a column the file does not have reads as blank
Cell(row, col) == IF col \in DOMAIN row THEN row[col] ELSE <<>>

\* int(float(atomic_number)) if str(atomic_number).strip() != "" else None;
\* raised where float() raises ValueError
AtnoCell(row) ==
    LET a == Strip(Cell(row, "atomic_number"))
    IN  IF a = <<>> THEN [raised |-> FALSE, val |-> None]
        ELSE IF IntFloat(a) = None THEN [raised |-> TRUE, val |-> None]
        ELSE [raised |-> FALSE, val |-> IntFloat(a)]

\* the el record of a row (the columns the placement does not read are left out)
MakeEl(row) ==
    [atomic_number |-> AtnoCell(row).val,
     symbol   |-> Cell(row, "symbol"),
     name     |-> Cell(row, "name"),
     category |-> Cell(row, "category"),
     period   |-> to_int_or_none(Some(Cell(row, "period"))),
     group    |-> to_int_or_none(Some(Cell(row, "group"))),
     x        |-> to_int_or_none(Some(Cell(row, "x"))),
     y        |-> to_int_or_none(Some(Cell(row, "y")))]

InRange(v, lo, hi) == v # None /\ lo <= v[1] /\ v[1] <= hi

\* one pass of the element load loop once el is built: where the row goes
PlaceRow(pm, fb, row) ==
    LET el == MakeEl(row)
    IN  IF InRange(el.x, 1, MAX_GROUP) /\ InRange(el.y, 1, MAX_PERIOD)
        THEN [position_map |-> Put(pm, <<el.y[1], el.x[1]>>, el), f_block_elements |-> fb]
        ELSE IF el.category \in {Txt_Lanthanide, Txt_Actinide}
        THEN [position_map |-> pm, f_block_elements |-> Append(fb, el)]
        ELSE IF InRange(el.period, 1, MAX_PERIOD) /\ InRange(el.group, 1, MAX_GROUP)
        THEN [position_map |-> Put(pm, <<el.period[1], el.group[1]>>, el),
              f_block_elements |-> fb]
        ELSE [position_map |-> pm, f_block_elements |-> fb]

\* sorted(..., key=atomic_number): stable
RECURSIVE InsertByAtno(_, _)
InsertByAtno(e, s) ==
    IF s = <<>> THEN <<e>>
    ELSE IF e.atomic_number[1] < Head(s).atomic_number[1] THEN <<e>> \o s
    ELSE <<Head(s)>> \o InsertByAtno(e, Tail(s))
RECURSIVE SortByAtno(_)
SortByAtno(s) ==
    IF s = <<>> THEN <<>>
    ELSE InsertByAtno(s[Len(s)], SortByAtno(SubSeq(s, 1, Len(s) - 1)))

\* the f-block after the loop: rows without an atomic number dropped, the rest
\* in atomic-number order
SortFBlock(fb) == SortByAtno(SelectSeq(fb, LAMBDA e : TruthyInt(e.atomic_number)))

\* position_map and f_block_elements after the loop has read rows (the tables
\* of the model hold no atomic number float() rejects)
RECURSIVE BuildPlacement(_)
BuildPlacement(rows) ==
    IF rows = <<>> THEN [position_map |-> EmptyMap, f_block_elements |-> <<>>]
    ELSE LET prev == BuildPlacement(SubSeq(rows, 1, Len(rows) - 1))
         IN  PlaceRow(prev.position_map, prev.f_block_elements, rows[Len(rows)])

\* element_definitions.csv as loaded: str(atomic number) -> definition
Txt_Lightest == <<"L","i","g","h","t","e","s","t">>
DefinitionsPlain == [k \in {<<"1">>, <<"2","6">>} |->
                        IF k = <<"1">> THEN Txt_Lightest ELSE <<>>]

\* ------------------------------------------------------------------- state
VARIABLES
    ELEMENTS_BY_ATNO,   \* atomic number -> [name, symbol, category]
    SYMBOL_TO_ATNO,     \* lower-case symbol -> atomic number
    ATNO_TO_SYMBOL,     \* atomic number -> symbol as the table writes it
    COMBO_LOOKUP,       \* <<symbol, symbol>> -> combination row
    qs,                 \* dcc.Store "quiz-store"
    phase,              \* dcc.Store "app-phase"
    combo_result,       \* the children of "combo-result"
    last,               \* the callback that ran last, its inputs and the state it saw
    g_in,               \* arguments of a direct call of a pure function
    g_out,              \* its result, None before the call
    load,               \* progress of a load loop at start-up: [stage, n, ...]
    position_map,       \* <<period, group>> -> el
    f_block_elements,   \* the f-block rows, a sequence of el
    definitions,        \* str(atomic number) -> definition text
    hidden_json,        \* the children of "hidden-json": the rows of elements.csv
    search,             \* the value of "search"
    category_filter,    \* the value of "category-filter"
    periodic_grid,      \* the children of "periodic-grid"
    element_details,    \* the children of "element-details"
    definition_area     \* the children of "definition-area"

refvars == <<ELEMENTS_BY_ATNO, SYMBOL_TO_ATNO, ATNO_TO_SYMBOL, COMBO_LOOKUP,
             position_map, f_block_elements, definitions, hidden_json>>
tablevars == <<search, category_filter, periodic_grid, element_details, definition_area>>
appvars == <<qs, phase, combo_result, last>>
gatevars == <<g_in, g_out>>
loadvars == <<load>>
vars == <<ELEMENTS_BY_ATNO, SYMBOL_TO_ATNO, ATNO_TO_SYMBOL, COMBO_LOOKUP,
          qs, phase, combo_result, last, g_in, g_out, load,
          position_map, f_block_elements, definitions, hidden_json,
          search, category_filter, periodic_grid, element_details, definition_area>>

\* --------------------------------------------------------- token normaliser
\* parse_element_token: [raised, val]; val is None or Some([atno, symbol]);
\* raised is TRUE where float() raises ValueError
parse_element_token(token) ==
    LET t == Strip(RemoveBOM(OrEmpty(token)))
    IN  IF t = <<>> THEN [raised |-> FALSE, val |-> None]
        ELSE IF IsDigit(ReplaceFirstDot(t))
        THEN LET at == IntFloat(t)
             IN  IF at = None THEN [raised |-> TRUE, val |-> None]
                 ELSE LET sym == Get(ATNO_TO_SYMBOL, at[1])
                      IN  IF sym # None /\ sym[1] # <<>>
                          THEN [raised |-> FALSE,
                                val |-> Some([atno |-> at[1], symbol |-> sym[1]])]
                          ELSE [raised |-> FALSE, val |-> None]
        ELSE LET sym == _norm_symbol(Some(t))
                 at  == Get(SYMBOL_TO_ATNO, Lower(sym))
             IN  IF TruthyInt(at)
                 THEN [raised |-> FALSE,
                       val |-> Some([atno |-> at[1], symbol |-> sym])]
                 ELSE [raised |-> FALSE, val |-> None]

\* ---------------------------------------------------- combination resolver
\* the "Primary product: ..." line of a found record: name and formula, each
\* left out when blank; None when both are
PrimaryLine(row) ==
    LET pname   == Strip(row.primary_product_name)
        formula == Strip(row.primary_product_formula)
    IN  IF pname = <<>> /\ formula = <<>> THEN None
        ELSE IF pname # <<>> /\ formula # <<>>
        THEN Some(pname \o <<" ","(">> \o formula \o <<")">>)
        ELSE IF formula # <<>> THEN Some(formula)
        ELSE Some(pname)

ComboOut(kind, level, head, row) ==
    [kind |-> kind, level |-> level, head |-> head, row |-> row,
     primary |-> IF row = None THEN None ELSE PrimaryLine(row[1])]

\* the resolver looking the pair up before it asks the gate
run_combination_lookup_first(v1, v2, q) ==
    LET level == IF q.level = NoLevel THEN "Advanced" ELSE q.level
        p1    == parse_element_token(v1)
        p2    == parse_element_token(v2)
    IN  IF p1.raised \/ p2.raised THEN ComboOut("Raise", level, <<>>, None)
        ELSE IF p1.val = None \/ p2.val = None
        THEN ComboOut("InvalidInput", level, <<>>, None)
        ELSE LET key == <<p1.val[1].symbol, p2.val[1].symbol>>
                 row == Get(COMBO_LOOKUP, key)
             IN  IF row # None THEN ComboOut("Found", level, key, row)
                 ELSE IF \/ ~is_unlocked_for_level(level, Some(p1.val[1].atno), None)
                         \/ ~is_unlocked_for_level(level, Some(p2.val[1].atno), None)
                 THEN ComboOut("LockedForLevel", level, <<>>, None)
                 ELSE ComboOut("NoRecord", level, key, None)

\* run_combination(v1, v2, qs): the outcome the returned text reports.
\* "Raise" is the exception parse_element_token lets through.
run_combination(v1, v2, q) ==
    LET level == IF q.level = NoLevel THEN "Advanced" ELSE q.level
        p1    == parse_element_token(v1)
        p2    == parse_element_token(v2)
    IN  IF p1.raised \/ p2.raised THEN ComboOut("Raise", level, <<>>, None)
        ELSE IF p1.val = None \/ p2.val = None
        THEN ComboOut("InvalidInput", level, <<>>, None)
        ELSE IF \/ ~is_unlocked_for_level(level, Some(p1.val[1].atno), None)
                \/ ~is_unlocked_for_level(level, Some(p2.val[1].atno), None)
        THEN ComboOut("LockedForLevel", level, <<>>, None)
        ELSE LET key == <<p1.val[1].symbol, p2.val[1].symbol>>
                 row == Get(COMBO_LOOKUP, key)
             IN  IF row = None THEN ComboOut("NoRecord", level, key, None)
                 ELSE ComboOut("Found", level, key, row)

\* ------------------------------------------------------------ table page
\* a grid cell: an element button, a locked cell, a dimmed cell or an empty one
GridCell(kind, index, color, symbol, name, level) ==
    [kind |-> kind, index |-> index, color |-> color, symbol |-> symbol,
     name |-> name, level |-> level]
EmptyCell == GridCell("empty", <<>>, "", <<>>, <<>>, "")

make_cell(el) ==
    IF ~TruthyInt(el.atomic_number) THEN EmptyCell
    ELSE GridCell("button", Str(el.atomic_number[1]), category_color(Some(el.category)),
                  el.symbol, el.name, "")

make_locked_cell(el, level) == GridCell("locked", <<>>, "#FFFFFF", <<>>, <<>>, level)

\* s in t, for text
Contains(s, t) == \E i \in 0..(Len(t) - Len(s)) : SubSeq(t, i + 1, i + Len(s)) = s
SetOf(xs) == {xs[i] : i \in 1..Len(xs)}

\* the search and the category filter let el show
Visible(el, s, selected_cats) ==
    /\ ~(s # <<>> /\ ~Contains(s, Lower(el.symbol)) /\ ~Contains(s, Lower(el.name)))
    /\ ~(selected_cats # {} /\ el.category \notin selected_cats)

DimmedCell(el) == GridCell("dimmed", <<>>, category_color(Some(el.category)), <<>>, <<>>, "")

\* the cell build_grid renders for an el of position_map
MainCell(el, s, selected_cats, lvl) ==
    IF /\ TruthyInt(el.atomic_number)
       /\ ~is_unlocked_for_level(lvl, el.atomic_number, Some(el.category))
    THEN make_locked_cell(el, lvl)
    ELSE IF ~Visible(el, s, selected_cats) THEN DimmedCell(el)
    ELSE make_cell(el)

RECURSIVE PadCells(_)
PadCells(cells) == IF Len(cells) < MAX_GROUP THEN PadCells(Append(cells, EmptyCell)) ELSE cells

\* render_frow(elements_list)
render_frow(elements_list, s, selected_cats, lvl) ==
    LET lead == <<EmptyCell, EmptyCell, EmptyCell>>
    IN  IF lvl = "Intermediate"
        THEN PadCells(lead \o [i \in 1..Len(elements_list) |->
                                  make_locked_cell(elements_list[i], "Intermediate")])
        ELSE PadCells(lead \o [i \in 1..Len(elements_list) |->
                                  MainCell(elements_list[i], s, selected_cats, lvl)])

\* build_grid(search_value, categories, level): the cells of the positions
\* position_map holds (every other position of the 7 x 18 grid and the spacer
\* row are empty cells) and the two f-block rows, None for a row left out
build_grid(search_value, categories, level) ==
    LET s     == Lower(Strip(OrEmpty(search_value)))
        cats  == SetOf(OrEmpty(categories))
        lvl   == IF level = NoLevel THEN "Advanced" ELSE level
        lanth == SortByAtno(SelectSeq(f_block_elements,
                                      LAMBDA e : e.category = Txt_Lanthanide))
        actin == SortByAtno(SelectSeq(f_block_elements,
                                      LAMBDA e : e.category = Txt_Actinide))
    IN  [main  |-> [k \in DOMAIN position_map |-> MainCell(position_map[k], s, cats, lvl)],
         lanth |-> IF lanth = <<>> THEN None ELSE Some(render_frow(lanth, s, cats, lvl)),
         actin |-> IF actin = <<>> THEN None ELSE Some(render_frow(actin, s, cats, lvl))]

\* the elements dict of show_element and show_definition: the rows of
\* hidden-json with an atomic number, by str(int(float(atomic_number)))
RECURSIVE ElementsByIndex(_)
ElementsByIndex(records) ==
    IF records = <<>> THEN EmptyMap
    ELSE LET e    == records[Len(records)]
             prev == ElementsByIndex(SubSeq(records, 1, Len(records) - 1))
             a    == Strip(Cell(e, "atomic_number"))
         IN  IF a # <<>> /\ IntFloat(a) # None THEN Put(prev, Str(IntFloat(a)[1]), e)
             ELSE prev

Panel(kind, level, index, name, symbol, text) ==
    [kind |-> kind, level |-> level, index |-> index, name |-> name,
     symbol |-> symbol, text |-> text]

\* show_element(click, qs): click is the index of the button clicked, None
\* when nothing triggered the callback; the result is None for no_update
show_element(click, q) ==
    LET elements == ElementsByIndex(hidden_json)
        level    == IF q.level = NoLevel THEN "Advanced" ELSE q.level
        el       == Get(elements, IF click = None THEN <<"1">> ELSE click[1])
    IN  IF el = None THEN None
        ELSE LET atno == IntFloat(Strip(Cell(el[1], "atomic_number")))
                 cat  == Cell(el[1], "category")
             IN  IF ~is_unlocked_for_level(level, atno, Some(cat))
                 THEN Some(Panel("locked", level, <<>>, <<>>, <<>>, <<>>))
                 ELSE Some(Panel("details", "", Str(atno[1]), Cell(el[1], "name"),
                                 Cell(el[1], "symbol"), cat))

Txt_NoDefinition == <<"N","o"," ","d","e","f","i","n","i","t","i","o","n"," ","a","v","a","i","l","a","b","l","e",".">>

\* show_definition(click, qs)
show_definition(click, q) ==
    LET elements == ElementsByIndex(hidden_json)
        level    == IF q.level = NoLevel THEN "Advanced" ELSE q.level
    IN  IF click = None THEN Some(Panel("prompt", "", <<>>, <<>>, <<>>, <<>>))
        ELSE LET el == Get(elements, click[1])
             IN  IF el = None THEN None
                 ELSE LET atno == IntFloat(Strip(Cell(el[1], "atomic_number")))
                          cat  == Cell(el[1], "category")
                          dt   == IF click[1] \in DOMAIN definitions
                                  THEN definitions[click[1]] ELSE Txt_NoDefinition
                      IN  IF ~is_unlocked_for_level(level, atno, Some(cat))
                          THEN Some(Panel("locked", level, <<>>, <<>>, <<>>, <<>>))
                          ELSE Some(Panel("definition", "", click[1], Cell(el[1], "name"),
                                          Cell(el[1], "symbol"),
                                          IF dt = <<>> THEN Txt_NoDefinition ELSE dt))

\* --------------------------------------------------------------- quiz bank
Question(q, atno, ask, hint) == [q |-> q, atno |-> atno, ask |-> ask, hint |-> hint]

QUIZ_BANK ==
    [Basic |-> <<
        Question("What is the symbol for Hydrogen?", 1, "symbol",
                 "Hydrogen is the most abundant element in the universe - its symbol is just one letter."),
        Question("What is the name of the element with symbol O?", 8, "name",
                 "It makes up about 21% of Earth's atmosphere and is essential for respiration."),
        Question("What is the symbol for the 20th element?", 20, "symbol",
                 "This element helps strengthen bones and teeth - its symbol is two letters.") >>,
     Intermediate |-> <<
        Question("What is the atomic number for Iron?", 26, "atomic_number",
                 "Iron is the main ingredient in steel and is vital in your blood - its atomic number is in the 20s."),
        Question("What is the symbol for Krypton?", 36, "symbol",
                 "A noble gas used in lighting - its symbol starts with K."),
        Question("What is the name of the 54th element?", 54, "name",
                 "It's a noble gas - used in some lamps and anesthesia research.") >>,
     Advanced |-> <<
        Question("What is the symbol for Mercury?", 80, "symbol",
                 "Mercury is a metal that's liquid at room temperature - its symbol doesn't match its English name."),
        Question("What is the atomic number of Plutonium?", 94, "atomic_number",
                 "A radioactive element used in nuclear technology - its atomic number is in the 90s."),
        Question("What is the symbol for Uranium?", 92, "symbol",
                 "A heavy element used as nuclear fuel - its symbol is a single letter.") >>]

\* QUIZ_BANK.get(level, QUIZ_BANK["Basic"])
Bank(level) == IF level \in Levels THEN QUIZ_BANK[level] ELSE QUIZ_BANK["Basic"]

\* el.get(f, ""), el = ELEMENTS_BY_ATNO.get(atno, {})
ElField(atno, f) ==
    IF atno \in DOMAIN ELEMENTS_BY_ATNO THEN ELEMENTS_BY_ATNO[atno][f] ELSE <<>>

\* the list of accepted answers of a main question
get_answer_for_main(qobj) ==
    IF qobj.ask = "atomic_number" THEN <<Str(qobj.atno)>>
    ELSE IF qobj.ask = "symbol" THEN <<norm(Some(ElField(qobj.atno, "symbol")))>>
    ELSE IF qobj.ask = "name" THEN <<norm(Some(ElField(qobj.atno, "name")))>>
    ELSE <<>>

\* f"element #{atno}"
ElementHash(atno) == <<"e","l","e","m","e","n","t"," ","#">> \o Str(atno)

NormAll(xs) == [i \in 1..Len(xs) |-> norm(Some(xs[i]))]

\* build_related with the fallback element 1 at every level
build_related_fallback_one(qobj, level) ==
    LET atno  == qobj.atno
        nm    == ElField(atno, "name")
        name  == IF nm # <<>> THEN nm ELSE ElementHash(atno)
        sym   == ElField(atno, "symbol")
        cat   == Strip(ElField(atno, "category"))
        rel_q == IF qobj.ask = "symbol"
                 THEN [text |-> "What is the atomic number of ", subject |-> name]
                 ELSE [text |-> "What is the symbol for ", subject |-> name]
        rel_a == IF qobj.ask = "symbol" THEN <<Str(atno)>> ELSE <<norm(Some(sym))>>
    IN  IF ~is_unlocked_for_level(level, Some(atno), Some(cat))
        THEN LET fallback_at == 1
                 fbn     == ElField(fallback_at, "name")
                 fb_name == IF fbn # <<>> THEN fbn ELSE ElementHash(fallback_at)
             IN  [q |-> [text |-> "What is the atomic number of ", subject |-> fb_name],
                  a |-> <<Str(fallback_at)>>]
        ELSE [q |-> rel_q,
              a |-> NormAll(SelectSeq(rel_a, LAMBDA x : x # <<>>))]

\* build_related(qobj, level): [q |-> [text, subject], a |-> accepted answers]
build_related(qobj, level) ==
    LET atno  == qobj.atno
        nm    == ElField(atno, "name")
        name  == IF nm # <<>> THEN nm ELSE ElementHash(atno)
        sym   == ElField(atno, "symbol")
        cat   == Strip(ElField(atno, "category"))
        rel_q == IF qobj.ask = "symbol"
                 THEN [text |-> "What is the atomic number of ", subject |-> name]
                 ELSE [text |-> "What is the symbol for ", subject |-> name]
        rel_a == IF qobj.ask = "symbol" THEN <<Str(atno)>> ELSE <<norm(Some(sym))>>
    IN  IF ~is_unlocked_for_level(level, Some(atno), Some(cat))
        THEN LET fallback_at == IF level = "Basic" THEN 1
                                ELSE IF level = "Intermediate" THEN 26 ELSE 1
                 fbn     == ElField(fallback_at, "name")
                 fb_name == IF fbn # <<>> THEN fbn ELSE ElementHash(fallback_at)
             IN  [q |-> [text |-> "What is the atomic number of ", subject |-> fb_name],
                  a |-> <<Str(fallback_at)>>]
        ELSE [q |-> rel_q,
              a |-> NormAll(SelectSeq(rel_a, LAMBDA x : x # <<>>))]

\* --------------------------------------------------------------- quiz gate
\* the initial data of "quiz-store"
QuizStart ==
    [stage |-> "level", level |-> NoLevel, idx |-> 0, score |-> 0, mode |-> "main",
     hint_used |-> FALSE, feedback |-> "", related |-> None]

LevelButtons == {"lvl-basic", "lvl-intermediate", "lvl-advanced"}

\* pick_level carrying the old score into the new round
pick_level_keeps_score(trig, q) ==
    LET level == IF trig = "lvl-basic" THEN "Basic"
                 ELSE IF trig = "lvl-intermediate" THEN "Intermediate"
                 ELSE IF trig = "lvl-advanced" THEN "Advanced"
                 ELSE NoLevel
    IN  IF level = NoLevel THEN q
        ELSE [stage |-> "questions", level |-> level, idx |-> 0, score |-> q.score,
              mode |-> "main", hint_used |-> FALSE, feedback |-> "", related |-> None]

\* pick_level: trig is the id of the button that fired
pick_level(trig, q) ==
    LET level == IF trig = "lvl-basic" THEN "Basic"
                 ELSE IF trig = "lvl-intermediate" THEN "Intermediate"
                 ELSE IF trig = "lvl-advanced" THEN "Advanced"
                 ELSE NoLevel
    IN  IF level = NoLevel THEN q
        ELSE [stage |-> "questions", level |-> level, idx |-> 0, score |-> 0,
              mode |-> "main", hint_used |-> FALSE, feedback |-> "", related |-> None]

\* a callback's pair of outputs; None is dash.no_update
Outputs(q, ph) == [qs |-> q, phase |-> ph]

\* _advance_question without the score increment
_advance_question_noscore(q) ==
    LET idx   == q.idx
        score == q.score
    IN  IF idx >= 2
        THEN Outputs(Some([q EXCEPT !.stage = "done", !.score = score]), Some("table"))
        ELSE Outputs(Some([q EXCEPT !.idx = idx + 1, !.score = score, !.mode = "main",
                                    !.hint_used = FALSE, !.feedback = "",
                                    !.related = None]),
                     None)

\* _advance_question ending the quiz one question early
_advance_question_ends_early(q) ==
    LET idx   == q.idx
        score == q.score + 1
    IN  IF idx >= 1
        THEN Outputs(Some([q EXCEPT !.stage = "done", !.score = score]), Some("table"))
        ELSE Outputs(Some([q EXCEPT !.idx = idx + 1, !.score = score, !.mode = "main",
                                    !.hint_used = FALSE, !.feedback = "",
                                    !.related = None]),
                     None)

_advance_question(q) ==
    LET idx   == q.idx
        score == q.score + 1
    IN  IF idx >= 2
        THEN Outputs(Some([q EXCEPT !.stage = "done", !.score = score]), Some("table"))
        ELSE Outputs(Some([q EXCEPT !.idx = idx + 1, !.score = score, !.mode = "main",
                                    !.hint_used = FALSE, !.feedback = "",
                                    !.related = None]),
                     None)

Member(x, xs) == \E i \in 1..Len(xs) : xs[i] = x

\* the related branch dropping the related question on a wrong answer
related_answer_forgets(q, user) ==
    LET rel_answers == NormAll(q.related[1].a)
    IN  IF Member(user, rel_answers) THEN _advance_question(q)
        ELSE Outputs(Some([q EXCEPT !.mode = "main", !.related = None]), None)

\* next_question, mode "related": the answer is checked against the related
\* question's accepted answers
related_answer(q, user) ==
    LET rel_answers == NormAll(q.related[1].a)
    IN  IF Member(user, rel_answers) THEN _advance_question(q)
        ELSE Outputs(Some([q EXCEPT !.mode = "main"]), None)

\* the first wrong answer setting the flag without the hint text
first_wrong_nohint(q, main_qobj) ==
    Outputs(Some([q EXCEPT !.hint_used = TRUE, !.feedback = "", !.mode = "main"]), None)

\* next_question, a wrong answer before the hint was given
first_wrong(q, main_qobj) ==
    LET hint_txt == main_qobj.hint
        hint_msg == IF hint_txt # "" THEN "Hint: " \o hint_txt ELSE ""
    IN  Outputs(Some([q EXCEPT !.hint_used = TRUE, !.feedback = hint_msg,
                               !.mode = "main"]),
                None)

\* the second wrong answer building the related question without switching
second_wrong_stays_main(q, main_qobj, level) ==
    LET rel == IF q.related # None THEN q.related[1]
               ELSE build_related(main_qobj, level)
    IN  Outputs(Some([q EXCEPT !.related = Some(rel)]), None)

\* next_question, a wrong answer after the hint was given
\* the second wrong answer switching to related mode without a related question
second_wrong_stores_nothing(q, main_qobj, level) ==
    Outputs(Some([q EXCEPT !.mode = "related"]), None)

second_wrong(q, main_qobj, level) ==
    LET rel == IF q.related # None THEN q.related[1]
               ELSE build_related(main_qobj, level)
    IN  Outputs(Some([q EXCEPT !.mode = "related", !.related = Some(rel)]), None)

\* next_question(n_clicks, n_submit, ans, qs)
next_question(ans, q) ==
    IF q.stage # "questions" THEN Outputs(None, None)
    ELSE
    LET level     == IF q.level = NoLevel THEN "Basic" ELSE q.level
        idx       == q.idx
        mode      == q.mode
        user      == norm(ans)
        main_qobj == Bank(level)[idx + 1]
    IN  IF mode = "related" /\ q.related # None THEN related_answer(q, user)
        ELSE IF Member(user, NormAll(get_answer_for_main(main_qobj)))
        THEN _advance_question(q)
        ELSE IF ~q.hint_used THEN first_wrong(q, main_qobj)
        ELSE second_wrong(q, main_qobj, level)

\* ----------------------------------------------------------------- inputs
\* what the user can have typed into "quiz-answer" (None: nothing yet)
Answers == {
    None, Some(<<>>), Some(<<" ">>), Some(<<"x">>),
    Some(<<" ","H"," ">>), Some(<<"1">>),
    Some(Upper(Txt_Oxygen)), Some(<<"o">>),
    Some(<<"C","A">>), Some(<<"2","0">>),
    Some(<<"2","6">>), Some(<<"f","e">>),
    Some(<<"K","r">>), Some(<<"3","6">>),
    Some(Txt_Xenon), Some(<<"x","e">>),
    Some(<<"h","g">>), Some(<<"8","0">>),
    Some(<<"9","4">>), Some(<<"P","u">>),
    Some(<<"u">>), Some(<<"9","2">>) }

\* what the user can have typed into "combo-in-1" and "combo-in-2"
Tokens == {
    Some(<<"o">>), Some(<<" ","f","E",BOM>>), Some(<<"2","6",".","0">>),
    Some(<<"N","D">>), Some(<<"z","z">>), Some(<<SUP2>>) }

\* the inputs of the whole-application specification
FewAnswers == {Some(<<"x">>), Some(<<" ","H"," ">>)}
FewTokens == {Some(<<"o">>)}

\* raised: the callback ended in an exception and wrote no output
Event(op, a1, a2) ==
    [op |-> op, a1 |-> a1, a2 |-> a2, pre |-> qs, phase_pre |-> phase, raised |-> FALSE]

\* ----------------------------------------------------------------- actions
PickLevel ==
    \E trig \in LevelButtons :
        /\ qs' = pick_level(trig, qs)
        /\ last' = Event("pick_level", Some(trig), None)
        /\ UNCHANGED <<phase, combo_result, refvars, gatevars, loadvars, tablevars>>

NextQuestion(answers) ==
    \E ans \in answers :
        LET out == next_question(ans, qs)
        IN  /\ qs' = IF out.qs = None THEN qs ELSE out.qs[1]
            /\ phase' = IF out.phase = None THEN phase ELSE out.phase[1]
            /\ last' = Event("next_question", ans, None)
            /\ UNCHANGED <<combo_result, refvars, gatevars, loadvars, tablevars>>

RunCombination(tokens) ==
    \E v1 \in tokens, v2 \in tokens :
        LET out == run_combination(v1, v2, qs)
        IN  /\ combo_result' = IF out.kind = "Raise" THEN combo_result ELSE Some(out)
            /\ last' = [Event("run_combination", v1, v2) EXCEPT !.raised = (out.kind = "Raise")]
            /\ UNCHANGED <<qs, phase, refvars, gatevars, loadvars, tablevars>>

\* what the user can have typed into "search" and picked in "category-filter"
GridInputs == {<<None, None>>, <<Some(<<" ","F","E">>), Some(<<Txt_Metal>>)>>}
\* the button clicked: None when the callback runs untriggered
ClickIds == {None, Some(<<"6","0">>), Some(<<"7">>)}

\* update_grid keeping only the lanthanides in the module's f-block list
UpdateGrid_filters_in_place ==
    \E inp \in GridInputs :
        /\ search' = inp[1]
        /\ category_filter' = inp[2]
        /\ periodic_grid' = Some(build_grid(inp[1], inp[2], qs.level))
        /\ f_block_elements' = SelectSeq(f_block_elements,
                                         LAMBDA e : e.category = Txt_Lanthanide)
        /\ last' = Event("update_grid", inp[1], None)
        /\ UNCHANGED <<qs, phase, combo_result, gatevars, loadvars,
                       ELEMENTS_BY_ATNO, SYMBOL_TO_ATNO, ATNO_TO_SYMBOL, COMBO_LOOKUP,
                       position_map, definitions, hidden_json,
                       element_details, definition_area>>

\* update_grid, run when the search, the filter or a store changes
UpdateGrid ==
    \E inp \in GridInputs :
        /\ search' = inp[1]
        /\ category_filter' = inp[2]
        /\ periodic_grid' = Some(build_grid(inp[1], inp[2], qs.level))
        /\ last' = Event("update_grid", inp[1], None)
        /\ UNCHANGED <<qs, phase, combo_result, refvars, gatevars, loadvars,
                       element_details, definition_area>>

\* reset_filters: return "", []
ResetFilters ==
    /\ search' = Some(<<>>)
    /\ category_filter' = Some(<<>>)
    /\ last' = Event("reset_filters", None, None)
    /\ UNCHANGED <<qs, phase, combo_result, refvars, gatevars, loadvars,
                   periodic_grid, element_details, definition_area>>

\* a click on an element button: show_element and show_definition both have
\* the buttons' n_clicks as Input and both run
ElementClick ==
    \E click \in ClickIds :
        LET det == show_element(click, qs)
            def == show_definition(click, qs)
        IN  /\ element_details' = IF det = None THEN element_details ELSE det
            /\ definition_area' = IF def = None THEN definition_area ELSE def
            /\ last' = Event("element_click", click, None)
            /\ UNCHANGED <<qs, phase, combo_result, refvars, gatevars, loadvars,
                           search, category_filter, periodic_grid>>

\* a direct call of the gate on the drawn arguments
GateCall ==
    /\ g_out = None
    /\ g_out' = Some(is_unlocked_for_level(g_in.level, g_in.atno, g_in.category))
    /\ UNCHANGED <<g_in, appvars, refvars, loadvars, tablevars>>

GateLevels == Levels \cup {NoLevel}
GateAtnos == {None} \cup {Some(n) : n \in (0 - NegAtno)..MaxAtno}
GateCategories == {None, Some(<<>>), Some(Txt_Lanthanide), Some(Txt_Actinide),
                   Some(<<" ">> \o Txt_Actinide \o <<" ">>), Some(Txt_Nonmetal),
                   Some(Lower(Txt_Lanthanide))}

NoEvent == [op |-> "none", a1 |-> None, a2 |-> None, pre |-> QuizStart,
            phase_pre |-> "quiz", raised |-> FALSE]

\* the table page before its callbacks have run
NoTable ==
    /\ search = None /\ category_filter = None
    /\ periodic_grid = None /\ element_details = None /\ definition_area = None

\* start-up is over
Loaded == [stage |-> "done", n |-> 0]

\* the state after module load and layout construction; files is a set of
\* pairs <<element table, combination file>>
InitApp(files) ==
    /\ \E f \in files :
          /\ ELEMENTS_BY_ATNO = BuildElementsByAtno(f[1])
          /\ SYMBOL_TO_ATNO = BuildSymbolToAtno(f[1])
          /\ ATNO_TO_SYMBOL = BuildAtnoToSymbol(f[1])
          /\ COMBO_LOOKUP = BuildComboLookup(f[2])
          /\ position_map = BuildPlacement(f[1]).position_map
          /\ f_block_elements = SortFBlock(BuildPlacement(f[1]).f_block_elements)
          /\ hidden_json = f[1]
    /\ definitions = DefinitionsPlain
    /\ NoTable
    /\ qs = QuizStart
    /\ phase = "quiz"
    /\ combo_result = None
    /\ last = NoEvent
    /\ load = Loaded

NoGate ==
    /\ g_in = [level |-> NoLevel, atno |-> None, category |-> None]
    /\ g_out = None

\* the application: every callback that writes a store or a panel of the table page
Init == InitApp({<<DataGrid, ComboPlain>>}) /\ NoGate

Next == \/ PickLevel \/ NextQuestion(FewAnswers) \/ RunCombination(FewTokens)
        \/ UpdateGrid \/ ResetFilters \/ ElementClick

Spec == Init /\ [][Next]_vars

\* the quiz gate on every element table
InitQuiz == InitApp(DataSets \X {ComboPlain}) /\ NoGate

NextQuiz == PickLevel \/ NextQuestion(Answers)

SpecQuiz == InitQuiz /\ [][NextQuiz]_vars

\* the combination resolver at every level
ComboFiles == {<<DataPlain, ComboPlain>>, <<DataPlain, ComboMessy>>,
               <<DataExport, ComboPlain>>, <<DataExport, ComboMessy>>,
               <<DataGaps, <<>> >>, <<DataOdd, ComboPlain>>}
InitCombo == InitApp(ComboFiles) /\ NoGate

NextCombo == PickLevel \/ RunCombination(Tokens)

SpecCombo == InitCombo /\ [][NextCombo]_vars

\* the gate as a pure function: Init draws the arguments, GateCall applies it
InitGate ==
    /\ InitApp({<<DataPlain, ComboPlain>>})
    /\ g_in \in [level : GateLevels, atno : GateAtnos, category : GateCategories]
    /\ g_out = None

NextGate == GateCall

SpecGate == InitGate /\ [][NextGate]_vars

\* --------------------------------------------- the combination load loop
\* the loop of lines 211-218 run row by row on rows drawn from ComboRowPool
MaxComboRows == 3
Reactants == {<<>>, <<"H">>, <<" ","h">>, <<BOM,"O">>, <<"o">>}
ComboRowPool == {CbRow(a, b, nm, <<>>) : a \in Reactants, b \in Reactants,
                                         nm \in {Txt_Water, <<>>}}

LoadComboRow ==
    /\ load.stage = "combo"
    /\ load.n < MaxComboRows
    /\ \E row \in ComboRowPool : COMBO_LOOKUP' = ComboLoadRow(COMBO_LOOKUP, row)
    /\ load' = [load EXCEPT !.n = load.n + 1]
    /\ UNCHANGED <<ELEMENTS_BY_ATNO, SYMBOL_TO_ATNO, ATNO_TO_SYMBOL, appvars, gatevars,
                   position_map, f_block_elements, definitions, hidden_json, tablevars>>

InitLoadCombo ==
    /\ ELEMENTS_BY_ATNO = BuildElementsByAtno(DataPlain)
    /\ SYMBOL_TO_ATNO = BuildSymbolToAtno(DataPlain)
    /\ ATNO_TO_SYMBOL = BuildAtnoToSymbol(DataPlain)
    /\ COMBO_LOOKUP = EmptyMap
    /\ position_map = BuildPlacement(DataPlain).position_map
    /\ f_block_elements = SortFBlock(BuildPlacement(DataPlain).f_block_elements)
    /\ definitions = DefinitionsPlain
    /\ hidden_json = DataPlain
    /\ NoTable
    /\ qs = QuizStart /\ phase = "quiz" /\ combo_result = None /\ last = NoEvent
    /\ NoGate
    /\ load = [stage |-> "combo", n |-> 0]

NextLoadCombo == LoadComboRow

SpecLoadCombo == InitLoadCombo /\ [][NextLoadCombo]_vars

\* ------------------------------------------- the normaliser as a function
\* the ways a user can write the element n of the registry, and tokens that
\* name no element
Hows == {"same", "upper", "lower", "padded", "bom", "decimal"}
Written(n, how) ==
    LET s == ATNO_TO_SYMBOL[n]
    IN  IF how = "same" THEN s
        ELSE IF how = "upper" THEN Upper(s)
        ELSE IF how = "lower" THEN Lower(s)
        ELSE IF how = "padded" THEN <<" ">> \o s \o <<"TAB", " ">>
        ELSE IF how = "bom" THEN <<BOM>> \o s \o <<BOM>>
        ELSE Str(n)
RawTokens == {None, Some(<<>>), Some(<<" ", "TAB">>), Some(<<BOM>>),
              Some(<<"0">>), Some(<<"7">>), Some(<<"7",".">>),
              Some(<<".","5">>), Some(<<".">>), Some(<<"1",".","2",".","3">>),
              Some(<<"-","1">>), Some(<<"z","z">>), Some(<<"F","e","2">>),
              Some(<<SUP2>>), Some(<<"2",SUP2>>)}
ParseInputs ==
    {[atno |-> n, how |-> h, token |-> Some(Written(n, h))] :
        n \in DOMAIN ATNO_TO_SYMBOL, h \in Hows}
    \cup {[atno |-> 0, how |-> "raw", token |-> t] : t \in RawTokens}

\* a direct call of parse_element_token on the drawn token
ParseCall ==
    /\ g_out = None
    /\ g_out' = Some(parse_element_token(g_in.token))
    /\ UNCHANGED <<g_in, appvars, refvars, loadvars, tablevars>>

InitParse ==
    /\ InitApp(DataSets \X {ComboPlain})
    /\ g_in \in ParseInputs
    /\ g_out = None

NextParse == ParseCall

SpecParse == InitParse /\ [][NextParse]_vars

\* ------------------------------------------------ the element load loop
\* the loop of lines 104-143 run row by row on rows drawn from ElRowPool, then
\* the sort of lines 145-148
MaxElRows == 2
Blank2 == << <<>>, <<>> >>
XYCells == {<<(<<"3">>), (<<"6">>)>>, Blank2, <<(<<"1","9">>), (<<"1">>)>>,
            <<(<<"q">>), (<<"6">>)>>}
PGCells == {<<(<<"6">>), (<<"3">>)>>, Blank2}
ElRowPool ==
    {GridRow(<<"5","7">>, <<"L","a">>, cat, xy, pg) :
        cat \in {Txt_Lanthanide, Txt_Metal}, xy \in XYCells, pg \in PGCells}
    \cup {GridRow(<<"5","8">>, <<"C","e">>, Txt_Lanthanide, Blank2, <<(<<"6">>), (<<"3">>)>>),
          GridRow(<<>>, <<"P","r">>, Txt_Lanthanide, Blank2, <<(<<"6">>), (<<"3">>)>>),
          GridRow(<<"0">>, <<"A","c">>, Txt_Actinide, Blank2, Blank2),
          GridRow(<<"5","9">>, <<"N","d">>, Txt_Lanthanide \o <<" ">>, Blank2,
                  <<(<<"6">>), (<<"3">>)>>),
          GridRow(<<" ","5","7",".","0"," ">>, <<"F","e">>, Txt_Metal, <<(<<"3">>), (<<>>)>>,
                  <<(<<"8">>), (<<"3">>)>>),
          GridRow(<<>>, <<"H">>, Txt_Metal, <<(<<"3">>), (<<"6">>)>>, Blank2),
          GridRow(<<"x">>, <<"O">>, Txt_Metal, <<(<<"3">>), (<<"6">>)>>, <<(<<"6">>), (<<"3">>)>>),
          GridRow(<<"1",".","2",".","3">>, <<"U">>, Txt_Actinide, Blank2, Blank2)}

\* one pass of the loop body; building el raises on an atomic number float()
\* rejects, which ends the module load
LoadElementRow ==
    /\ load.stage = "elements"
    /\ load.n < MaxElRows
    /\ \E row \in ElRowPool :
          LET pre == [position_map |-> position_map, f_block_elements |-> f_block_elements]
              out == PlaceRow(position_map, f_block_elements, row)
          IN  IF AtnoCell(row).raised
              THEN /\ load' = [stage |-> "crashed", n |-> load.n + 1, row |-> Some(row),
                               el |-> None, pre |-> pre]
                   /\ UNCHANGED <<position_map, f_block_elements>>
              ELSE /\ load' = [stage |-> "elements", n |-> load.n + 1, row |-> Some(row),
                               el |-> Some(MakeEl(row)), pre |-> pre]
                   /\ position_map' = out.position_map
                   /\ f_block_elements' = out.f_block_elements
    /\ UNCHANGED <<ELEMENTS_BY_ATNO, SYMBOL_TO_ATNO, ATNO_TO_SYMBOL, COMBO_LOOKUP,
                   definitions, hidden_json, appvars, gatevars, tablevars>>

\* the file is read through: filter and sort the f-block
SortLoaded ==
    /\ load.stage = "elements"
    /\ load' = [stage |-> "placed", n |-> load.n, row |-> None, el |-> None,
                pre |-> [position_map |-> position_map,
                         f_block_elements |-> f_block_elements]]
    /\ f_block_elements' = SortFBlock(f_block_elements)
    /\ UNCHANGED <<ELEMENTS_BY_ATNO, SYMBOL_TO_ATNO, ATNO_TO_SYMBOL, COMBO_LOOKUP,
                   position_map, definitions, hidden_json, appvars, gatevars, tablevars>>

InitLoadElements ==
    /\ ELEMENTS_BY_ATNO = EmptyMap /\ SYMBOL_TO_ATNO = EmptyMap
    /\ ATNO_TO_SYMBOL = EmptyMap /\ COMBO_LOOKUP = EmptyMap
    /\ position_map = EmptyMap
    /\ f_block_elements = <<>>
    /\ definitions = DefinitionsPlain
    /\ hidden_json = <<>>
    /\ NoTable
    /\ qs = QuizStart /\ phase = "quiz" /\ combo_result = None /\ last = NoEvent
    /\ NoGate
    /\ load = [stage |-> "elements", n |-> 0, row |-> None, el |-> None,
               pre |-> [position_map |-> EmptyMap, f_block_elements |-> <<>>]]

NextLoadElements == LoadElementRow \/ SortLoaded

SpecLoadElements == InitLoadElements /\ [][NextLoadElements]_vars

\* ------------------------------------------- build_related as a function
\* the questions of the bank and questions about elements outside it
RelatedAtnos == {0, 1, 20, 21, 26, 36, 54, 55, 60, 92, 119}
RelatedAsks == {"symbol", "name", "atomic_number"}
RelatedInputs ==
    {[qobj |-> Question("", n, ask, ""), level |-> lv] :
        n \in RelatedAtnos, ask \in RelatedAsks, lv \in Levels}

\* a direct call of build_related on the drawn question and level
RelatedCall ==
    /\ g_out = None
    /\ g_out' = Some(build_related(g_in.qobj, g_in.level))
    /\ UNCHANGED <<g_in, appvars, refvars, loadvars, tablevars>>

InitRelated ==
    /\ InitApp(DataSets \X {ComboPlain})
    /\ g_in \in RelatedInputs
    /\ g_out = None

NextRelated == RelatedCall

SpecRelated == InitRelated /\ [][NextRelated]_vars

\* ------------------------------------------ category_color as a function
\* a category cell as a file can write it
Spellings == {"same", "padded", "lower", "upper"}
Spelled(t, how) ==
    IF how = "same" THEN t
    ELSE IF how = "padded" THEN <<" ">> \o t \o <<" ">>
    ELSE IF how = "lower" THEN Lower(t)
    ELSE Upper(t)
ColorInputs ==
    {Some(Spelled(t, how)) : t \in CategoryNames \cup {Txt_Unknown, Txt_Rust}, how \in Spellings}
    \cup {None, Some(<<>>), Some(<<" ">>)}

\* a direct call of category_color on the drawn category
ColorCall ==
    /\ g_out = None
    /\ g_out' = Some(category_color(g_in.cat))
    /\ UNCHANGED <<g_in, appvars, refvars, loadvars, tablevars>>

InitColor ==
    /\ InitApp(DataSets \X {ComboPlain})
    /\ g_in \in [cat : ColorInputs]
    /\ g_out = None

NextColor == ColorCall

SpecColor == InitColor /\ [][NextColor]_vars

\* what build_grid can be called with: the search box, the category filter
GridSearches == {None, Some(<<>>), Some(<<" ","F","E">>), Some(<<"h">>), Some(<<"z","z">>)}
GridFilters == {None, Some(<<>>), Some(<<Txt_Metal>>), Some(<<Txt_Lanthanide, Txt_Nonmetal>>)}

\* a direct call of build_grid on the drawn arguments
GridCall ==
    /\ g_out = None
    /\ g_out' = Some(build_grid(g_in.search, g_in.categories, g_in.level))
    /\ UNCHANGED <<g_in, appvars, refvars, loadvars, tablevars>>

InitGrid ==
    /\ InitApp({DataGrid, DataOdd, DataPlain} \X {ComboPlain})
    /\ g_in \in [level : GateLevels, search : GridSearches, categories : GridFilters]
    /\ g_out = None

NextGrid == GridCall

SpecGrid == InitGrid /\ [][NextGrid]_vars

\* ============================================================== properties
\* what the last callback saw
Pre == last.pre
Asked(q) == Bank(IF q.level = NoLevel THEN "Basic" ELSE q.level)[q.idx + 1]
InRelated(q) == q.mode = "related" /\ q.related # None

\* the accepted answers of the sub-mode q is in, trimmed and case-folded
AcceptedAnswers(q) ==
    IF InRelated(q) THEN NormAll(q.related[1].a)
    ELSE NormAll(get_answer_for_main(Asked(q)))

\* the last callback was an answer submitted while a question was open
Submitted == last.op = "next_question" /\ Pre.stage = "questions"
SubmittedRight == Submitted /\ Member(norm(last.a1), AcceptedAnswers(Pre))
SubmittedWrong == Submitted /\ ~Member(norm(last.a1), AcceptedAnswers(Pre))

\* C1 (as stated): a wrong answer in related mode leaves the quiz in related
\* mode with the same related question, idx, score and feedback.
C1_RelatedWrongStaysRelated ==
    (SubmittedWrong /\ InRelated(Pre))
        => /\ qs.mode = "related"
           /\ qs.related = Pre.related
           /\ qs.idx = Pre.idx
           /\ qs.score = Pre.score
           /\ qs.feedback = Pre.feedback

\* C1 (amended): a wrong answer in related mode returns the quiz to main mode
\* on the same question; the related question, idx, score, the hint flag and
\* the feedback are kept, so no new hint is issued.
C1_RelatedWrongBackToMain ==
    (SubmittedWrong /\ InRelated(Pre))
        => /\ qs = [Pre EXCEPT !.mode = "main"]
           /\ qs.related = Pre.related /\ qs.related # None
           /\ qs.feedback = Pre.feedback

C1_Witness ==
    /\ SubmittedWrong /\ InRelated(Pre)
    /\ qs.mode = "main" /\ qs.related # None /\ qs.hint_used

\* C2: an accepted answer (main or related sub-mode) adds exactly 1 to score;
\* with idx < 2 it moves to the next question with mode, hint flag, feedback
\* and related reset; with idx = 2 the stage becomes done.
C2_CorrectAdvances ==
    SubmittedRight
        => /\ qs.score = Pre.score + 1
           /\ Pre.idx < 2 =>
                 qs = [Pre EXCEPT !.idx = Pre.idx + 1, !.score = Pre.score + 1,
                                  !.mode = "main", !.hint_used = FALSE,
                                  !.feedback = "", !.related = None]
           /\ Pre.idx = 2 => qs.stage = "done"

C2_Witness ==
    /\ SubmittedRight /\ InRelated(Pre) /\ Pre.idx = 1
    /\ qs.idx = 2 /\ qs.score = Pre.score + 1 /\ qs.mode = "main"

\* C3: the first wrong answer on a question (main mode, hint not used) sets
\* the hint flag and a non-empty feedback carrying the question's hint, and
\* keeps mode main, idx and score.
C3_FirstWrongGivesHint ==
    (SubmittedWrong /\ Pre.mode = "main" /\ ~Pre.hint_used)
        => /\ qs.hint_used
           /\ qs.feedback # ""
           /\ qs.feedback = "Hint: " \o Asked(Pre).hint
           /\ qs.mode = "main"
           /\ qs.idx = Pre.idx /\ qs.score = Pre.score

C3_Witness ==
    /\ SubmittedWrong /\ Pre.mode = "main" /\ ~Pre.hint_used /\ Pre.idx = 1
    /\ qs.hint_used /\ qs.feedback # ""

\* C4: a wrong answer in main mode after the hint was used switches to
\* related mode with a related question, idx and score unchanged.
C4_SecondWrongGoesRelated ==
    (SubmittedWrong /\ Pre.mode = "main" /\ Pre.hint_used)
        => /\ qs.mode = "related"
           /\ qs.related # None
           /\ qs.idx = Pre.idx /\ qs.score = Pre.score

C4_Witness ==
    /\ SubmittedWrong /\ Pre.mode = "main" /\ Pre.hint_used /\ Pre.related = None
    /\ qs.mode = "related" /\ qs.related # None

\* C5 (as stated): once stage is done, no answer submission and no level pick
\* changes the quiz state.
C5_DoneIsTerminal ==
    (last.op \in {"next_question", "pick_level"} /\ Pre.stage = "done") => qs = Pre

\* C6: a level pick gives stage questions with the picked level and idx 0,
\* score 0, mode main, no hint, empty feedback and no related question,
\* whatever the state held before.
PickedLevel == IF last.a1 = Some("lvl-basic") THEN "Basic"
               ELSE IF last.a1 = Some("lvl-intermediate") THEN "Intermediate"
               ELSE "Advanced"
C6_LevelPickResets ==
    last.op = "pick_level"
        => qs = [stage |-> "questions", level |-> PickedLevel, idx |-> 0, score |-> 0,
                 mode |-> "main", hint_used |-> FALSE, feedback |-> "",
                 related |-> None]

C6_Witness ==
    /\ last.op = "pick_level"
    /\ Pre.score > 0 /\ Pre.mode = "related" /\ Pre.level # PickedLevel
    /\ qs.stage = "questions" /\ qs.score = 0

\* the arguments and the result of the direct gate call
GateDone == g_out # None
GateN == g_in.atno[1]
GateCat == Strip(OrEmpty(g_in.category))

\* C7: at Basic every atomic number 1..20 is unlocked, whatever the category,
\* and 21 and everything above is locked.
C7_BasicGate ==
    (GateDone /\ g_in.level = "Basic" /\ g_in.atno # None)
        => /\ (1 <= GateN /\ GateN <= 20) => g_out[1] = TRUE
           /\ GateN >= 21 => g_out[1] = FALSE

C7_Witness ==
    /\ GateDone /\ g_in.level = "Basic" /\ g_in.atno = Some(20)
    /\ g_in.category = Some(Txt_Actinide) /\ g_out[1] = TRUE

C9_AdvancedGate ==
    (GateDone /\ g_in.level = "Advanced" /\ g_in.atno # None)
        => g_out[1] = (1 <= GateN /\ GateN <= 118)

\* the two tokens of the last combination request, as the normaliser reads them
Tok1 == parse_element_token(last.a1)
Tok2 == parse_element_token(last.a2)
BothResolve == /\ last.op = "run_combination"
               /\ ~Tok1.raised /\ ~Tok2.raised
               /\ Tok1.val # None /\ Tok2.val # None
ActiveLevel == IF qs.level = NoLevel THEN "Advanced" ELSE qs.level
\* locked as the resolver asks the gate: by atomic number, no category
LockedHere(tok) == ~is_unlocked_for_level(ActiveLevel, Some(tok.val[1].atno), None)

\* C10: when both tokens resolve and one of the elements is locked for the
\* active level, the outcome is LockedForLevel, also when the combination
\* table holds a record for the pair.
C10_LockedBeforeLookup ==
    (BothResolve /\ (LockedHere(Tok1) \/ LockedHere(Tok2)))
        => /\ combo_result # None
           /\ combo_result[1].kind = "LockedForLevel"
           /\ combo_result[1].row = None

C10_Witness ==
    /\ BothResolve /\ LockedHere(Tok1) /\ ~LockedHere(Tok2)
    /\ <<Tok1.val[1].symbol, Tok2.val[1].symbol>> \in DOMAIN COMBO_LOOKUP
    /\ combo_result # None /\ combo_result[1].kind = "LockedForLevel"

\* a token fails to normalise: parse_element_token gives no element
Fails(tok) == tok.raised \/ tok.val = None
ComboCalled == last.op = "run_combination"
\* the last combination request answered "Enter two valid elements ..."
SaidInvalid == /\ ~last.raised
               /\ combo_result # None
               /\ combo_result[1].kind = "InvalidInput"

\* C11 (as stated): the outcome is InvalidInput exactly when one of the two
\* tokens fails to normalise; two tokens that resolve never give InvalidInput.
C11_InvalidIffTokenFails ==
    ComboCalled => (SaidInvalid <=> (Fails(Tok1) \/ Fails(Tok2)))

\* C12: when a combination request finds a record, the request with the two
\* tokens swapped finds the same record, with identical fields.
Swapped == run_combination(last.a2, last.a1, qs)
FoundRecord == /\ ComboCalled /\ ~last.raised
               /\ combo_result # None /\ combo_result[1].kind = "Found"
C12_CombinationSymmetric ==
    FoundRecord
        => /\ Swapped.kind = "Found"
           /\ Swapped.row = combo_result[1].row
           /\ Swapped.primary = combo_result[1].primary

C12_Witness ==
    /\ FoundRecord
    /\ Tok1.val[1].symbol # Tok2.val[1].symbol
    /\ combo_result[1].row[1].reactant_a = Tok2.val[1].symbol
    /\ Swapped.kind = "Found"

\* C13: for every key (A, B) of COMBO_LOOKUP the key (B, A) is present and
\* maps to the identical record, whatever rows were loaded.
C13_LookupSymmetric ==
    \A k \in DOMAIN COMBO_LOOKUP :
        /\ <<k[2], k[1]>> \in DOMAIN COMBO_LOOKUP
        /\ COMBO_LOOKUP[<<k[2], k[1]>>] = COMBO_LOOKUP[k]

\* a pair loaded twice, the second time in the other order with another
\* record, after a row with a blank reactant and a row with a = b
C13_Witness ==
    /\ load.stage = "combo" /\ load.n = 3
    /\ DOMAIN COMBO_LOOKUP = {<<(<<"H">>), (<<"O">>)>>, <<(<<"O">>), (<<"H">>)>>,
                              <<(<<"O">>), (<<"O">>)>>}
    /\ COMBO_LOOKUP[<<(<<"H">>), (<<"O">>)>>].reactant_a = <<"o">>
    /\ COMBO_LOOKUP[<<(<<"H">>), (<<"O">>)>>].primary_product_name = <<>>

\* the direct call of the normaliser has returned or raised
ParseDone == g_out # None
\* the token writes an element of the registry
WritesElement == ParseDone /\ g_in.how \in Hows

\* C14 (as stated): every way of writing a registry element - any case of its
\* symbol, the symbol between whitespace or BOM characters, the decimal string
\* of its atomic number - gives the pair (atomic number, canonical symbol).
C14_NormalizerRoundTrip ==
    WritesElement
        => /\ ~g_out[1].raised
           /\ g_out[1].val =
                 Some([atno   |-> g_in.atno,
                       symbol |-> _norm_symbol(Some(ATNO_TO_SYMBOL[g_in.atno]))])

\* C15 (as stated): parse_element_token raises for no token, and a token that
\* names no element gives the absent result.
C15_NormalizerTotal ==
    ParseDone
        => /\ ~g_out[1].raised
           /\ g_in.how = "raw" => g_out[1].val = None

\* the load loop has just read a row
RowRead == load.stage \in {"elements", "crashed"} /\ load.row # None
TheRow == load.row[1]
TheEl == load.el[1]
NumericColumns == {"x", "y", "period", "group"}
\* a cell that is blank or that int(float()) cannot read
Unreadable(cell) == Strip(cell) = <<>> \/ IntFloat(Strip(cell)) = None

\* C16 (as stated): a blank or unparsable cell of atomic_number, x, y, period
\* or group is read as absent, the load goes on, and the row's record is built
\* with the fields that did parse.
C16_LoaderTolerant ==
    RowRead
        => /\ load.stage # "crashed"
           /\ load.el # None
           /\ Unreadable(Cell(TheRow, "atomic_number")) => TheEl.atomic_number = None
           /\ \A c \in NumericColumns :
                 IF Unreadable(Cell(TheRow, c)) THEN TheEl[c] = None
                 ELSE TheEl[c] = IntFloat(Strip(Cell(TheRow, c)))

\* where the claim puts a row
ByXY(el) == InRange(el.x, 1, 18) /\ InRange(el.y, 1, 7)
ByCategory(el) == ~ByXY(el) /\ el.category \in {Txt_Lanthanide, Txt_Actinide}
ByPeriodGroup(el) == /\ ~ByXY(el) /\ ~ByCategory(el)
                     /\ InRange(el.period, 1, 7) /\ InRange(el.group, 1, 18)
OnGrid(el) == \E k \in DOMAIN position_map : position_map[k] = el
InFBlock(el) == \E i \in 1..Len(f_block_elements) : f_block_elements[i] = el

\* C17 (as stated): explicit x, y in range put the row on the grid at (y, x);
\* otherwise a Lanthanide or Actinide row goes to the f-block sequence and not
\* to the grid; otherwise period and group in range put it at (period, group);
\* otherwise it is placed nowhere.  No row is both on the grid and in the
\* f-block sequence, also once the sequence is sorted.
C17_PlacementPrecedence ==
    /\ (load.stage = "elements" /\ load.row # None) =>
          /\ ByXY(TheEl) =>
                /\ position_map = Put(load.pre.position_map, <<TheEl.y[1], TheEl.x[1]>>, TheEl)
                /\ f_block_elements = load.pre.f_block_elements
          /\ ByCategory(TheEl) =>
                /\ f_block_elements = Append(load.pre.f_block_elements, TheEl)
                /\ position_map = load.pre.position_map
          /\ ByPeriodGroup(TheEl) =>
                /\ position_map = Put(load.pre.position_map,
                                      <<TheEl.period[1], TheEl.group[1]>>, TheEl)
                /\ f_block_elements = load.pre.f_block_elements
          /\ (~ByXY(TheEl) /\ ~ByCategory(TheEl) /\ ~ByPeriodGroup(TheEl)) =>
                /\ position_map = load.pre.position_map
                /\ f_block_elements = load.pre.f_block_elements
    /\ load.stage = "placed" =>
          \A i \in 1..Len(load.pre.f_block_elements) :
              InFBlock(load.pre.f_block_elements[i])
    /\ load.stage \in {"elements", "placed"} =>
          \A k \in DOMAIN position_map : ~InFBlock(position_map[k])

\* the direct call of build_related has returned
RelatedDone == g_out # None
\* the element the main question is about, as the registry holds it
RelatedUnlocked ==
    is_unlocked_for_level(g_in.level, Some(g_in.qobj.atno),
                          Some(ElField(g_in.qobj.atno, "category")))
Fallback == IF g_in.level = "Intermediate" THEN 26 ELSE 1
\* el.get("name") or "element #n"
ShownName(n) == IF ElField(n, "name") # <<>> THEN ElField(n, "name") ELSE ElementHash(n)

\* C18: for an element unlocked at the level build_related asks the
\* complementary fact about it (its atomic number when the main question asks
\* the symbol, its symbol otherwise); for a locked element it asks the atomic
\* number of the fallback element, 1 at Basic and Advanced and 26 at
\* Intermediate, and accepts that number only.
C18_RelatedConstruction ==
    RelatedDone
        => /\ RelatedUnlocked =>
                /\ g_out[1].q.subject = ShownName(g_in.qobj.atno)
                /\ g_in.qobj.ask = "symbol" =>
                      /\ g_out[1].q.text = "What is the atomic number of "
                      /\ g_out[1].a = <<Str(g_in.qobj.atno)>>
                /\ g_in.qobj.ask # "symbol" =>
                      /\ g_out[1].q.text = "What is the symbol for "
                      /\ \A i \in 1..Len(g_out[1].a) :
                            g_out[1].a[i] = norm(Some(ElField(g_in.qobj.atno, "symbol")))
           /\ ~RelatedUnlocked =>
                /\ g_out[1].q.text = "What is the atomic number of "
                /\ g_out[1].q.subject = ShownName(Fallback)
                /\ g_out[1].a = <<Str(Fallback)>>

\* a quiz element the table files under the f-block, asked at Intermediate
C18_Witness ==
    /\ RelatedDone /\ ~RelatedUnlocked
    /\ g_in.level = "Intermediate" /\ g_in.qobj.atno = 36
    /\ g_out[1].a = << <<"2","6">> >>
    /\ g_out[1].q.subject = Txt_Iron

\* the direct call of category_color has returned
ColorDone == g_out # None
PaletteColors == {CATEGORY_COLORS[c] : c \in CategoryNames}
IsNamed(cat) == cat # None /\ cat[1] \in CategoryNames
\* "Unknown" (trimmed) or no category at all
IsUnknown(cat) == Strip(OrEmpty(cat)) = Txt_Unknown \/ OrEmpty(cat) = <<>>

\* C19 (as stated): a named category gets its own palette color; "Unknown" and
\* the empty category get one neutral color that no named category has; every
\* other text gets a second neutral color, different from the Unknown color.
C19_ThreeColorOutcomes ==
    ColorDone
        => /\ IsNamed(g_in.cat) =>
                /\ g_out[1] = CATEGORY_COLORS[g_in.cat[1]]
                /\ \A c \in CategoryNames \ {g_in.cat[1]} : CATEGORY_COLORS[c] # g_out[1]
           /\ IsUnknown(g_in.cat) =>
                /\ g_out[1] = "#E0E0E0"
                /\ g_out[1] \notin PaletteColors
           /\ (~IsNamed(g_in.cat) /\ ~IsUnknown(g_in.cat)) =>
                /\ g_out[1] = "#F0F0F0"
                /\ g_out[1] # "#E0E0E0"

\* callbacks that write the quiz store
QuizWriters == {"pick_level", "next_question"}

\* C20: no callback changes the element registry, the symbol and atomic-number
\* maps, the position map, the f-block sequence, the definitions, the
\* combination table or the rows behind the element panels; and a callback
\* other than pick_level and next_question leaves the quiz state as it was.
C20_ReferenceDataReadOnly ==
    [][/\ refvars' = refvars
       /\ last'.op \notin QuizWriters => qs' = qs]_vars

\* the table page in use while a related question is open in the quiz
C20_Witness ==
    /\ last.op = "update_grid" /\ last.a1 # None
    /\ qs.stage = "questions" /\ qs.score = 1 /\ qs.mode = "related"
    /\ periodic_grid # None /\ periodic_grid[1].actin # None
    /\ combo_result # None
    /\ element_details # None /\ element_details[1].kind = "locked"
    /\ definition_area # None
    /\ search # None /\ category_filter # None

\* C21: idx is 0, 1 or 2; while a question is open the score equals idx; once
\* the stage is done idx is 2 and the score is 3, the three accepted answers
\* since the last level pick.
C21_ScoreFollowsIndex ==
    /\ qs.idx \in {0, 1, 2}
    /\ qs.stage = "questions" => qs.score = qs.idx
    /\ qs.stage = "done" => (qs.idx = 2 /\ qs.score = 3)
    /\ qs.stage = "level" => (qs.idx = 0 /\ qs.score = 0)

\* the quiz finished on a related question, after a level was picked anew
C21_Witness ==
    /\ qs.stage = "done" /\ qs.idx = 2 /\ qs.score = 3
    /\ last.op = "next_question" /\ InRelated(Pre) /\ Pre.score = 2
    /\ qs.level = "Intermediate"

\* C22 (as stated): the phase starts as "quiz"; it becomes "table" only in the
\* step in which the stage becomes done; while it is "table" a level has been
\* picked and the stage is done; and it never goes back from "table" to "quiz".
C22_TableRevealGate ==
    /\ last.op = "none" => phase = "quiz"
    /\ (phase = "table" /\ last.phase_pre = "quiz") =>
          (qs.stage = "done" /\ Pre.stage # "done")
    /\ phase = "table" => (qs.level \in Levels /\ qs.stage = "done")
    /\ last.phase_pre = "table" => phase = "table"

\* the answer submitted last was absent, empty or whitespace only
BlankAnswer == Submitted /\ Strip(OrEmpty(last.a1)) = <<>>

\* C23 (as stated): a blank answer to an open question leaves idx and score as
\* they were, whatever the registry holds for the question's element.
C23_BlankNeverAdvances ==
    BlankAnswer => (qs.idx = Pre.idx /\ qs.score = Pre.score /\ qs.stage = "questions")

\* C24: related mode implies the hint was used and a related question is
\* stored; the stored related question is the one built for the open main
\* question and stays the same over further wrong answers; it is dropped, with
\* the hint flag, when the quiz moves to the next question or a level is picked.
C24_RelatedModeInvariant ==
    /\ qs.mode = "related" => (qs.hint_used /\ qs.related # None)
    /\ (qs.stage = "questions" /\ qs.related # None) =>
          qs.related[1] = build_related(Asked(qs), qs.level)
    /\ (SubmittedWrong /\ Pre.related # None) => qs.related = Pre.related
    /\ (SubmittedRight /\ Pre.idx < 2) => (qs.related = None /\ ~qs.hint_used)
    /\ last.op = "pick_level" => (qs.related = None /\ ~qs.hint_used)

\* a wrong answer after the quiz came back from the related question
C24_Witness ==
    /\ SubmittedWrong /\ Pre.mode = "main" /\ Pre.related # None
    /\ qs.mode = "related" /\ qs.related = Pre.related /\ qs.hint_used
    /\ qs.idx = 1

\* the level build_grid renders for, and its two sorted f-block lists
GridLevel == IF g_in.level = NoLevel THEN "Advanced" ELSE g_in.level
GridFBlock(cat) == SortByAtno(SelectSeq(f_block_elements, LAMBDA e : e.category = cat))
LockedFor(el) == ~is_unlocked_for_level(GridLevel, el.atomic_number, Some(el.category))

\* a cell and the el it was rendered for agree with the gate
CellFollowsGate(el, cell) ==
    /\ cell.kind = "button" => ~LockedFor(el)
    /\ LockedFor(el) => cell.kind = "locked"

FRowFollowsGate(row, els) ==
    row # None =>
        \A i \in 1..Len(els) : CellFollowsGate(els[i], row[1][3 + i])

\* C25: for every level, search string and category filter, build_grid renders
\* an element button (main grid or f-block rows) only for an element the gate
\* unlocks for the level, and renders every element the gate locks for the
\* level as a locked cell, whatever the search and the filter are.
C25_LockedNeverInteractive ==
    g_out # None =>
        /\ \A k \in DOMAIN position_map :
               CellFollowsGate(position_map[k], g_out[1].main[k])
        /\ FRowFollowsGate(g_out[1].lanth, GridFBlock(Txt_Lanthanide))
        /\ FRowFollowsGate(g_out[1].actin, GridFBlock(Txt_Actinide))

====
